---- MODULE Spec2Model ----
(***************************************************************************)
(* Model of django_cubrid/base.py: the CUBRID backend for Django.          *)
(*                                                                         *)
(* Text is a sequence of one-character strings.  A Python value is a       *)
(* record with a "type" field.  One invocation of a method of the backend  *)
(* is one action: it draws its arguments (and the reaction of the driver,  *)
(* where the method talks to the driver), and records the arguments, the   *)
(* calls the driver cursor received and the outcome (a returned value or a *)
(* raised exception).                                                      *)
(***************************************************************************)
EXTENDS Integers, Sequences, FiniteSets, TLC

VARIABLES
    pc,         \* "idle" before the invocation, "done" after it
    method,     \* name of the invoked method
    args,       \* record of the arguments (and settings) of the invocation
    driver,     \* calls the driver received (in order), with its reactions
    outcome,    \* what the invocation produced: returned value or exception
    self,       \* the DatabaseWrapper: connection, server_version, settings_dict
    signals,    \* the connection_created signals sent (in order)
    cursors     \* the cursors create_cursor has returned

vars == <<pc, method, args, driver, outcome, self, signals, cursors>>

\* the state of the DatabaseWrapper and of what it has sent and handed out
wrapper == <<self, signals, cursors>>

----------------------------------------------------------------------------
(* Bounds *)

MaxQueryLen == 5
MaxArgs == 2
MaxBytes == 2
MaxBits == 9
MaxJunk == 3
MaxNameLen == 5
MaxDriverCalls == 5

----------------------------------------------------------------------------
(* Python values and outcomes *)

None == [type |-> "NoneType"]

PyInt(n) == [type |-> "int", v |-> n]

PyTuple(items) == [type |-> "tuple", items |-> items]

PyStr(chars) == [type |-> "str", chars |-> chars]

PyBytes(items) == [type |-> "bytes", items |-> items]

PyBool(b) == [type |-> "bool", v |-> b]

Return(v) == [kind |-> "return", value |-> v]

Exc(module, name, a) == [module |-> module, type |-> name, args |-> a]

Raise(e) == [kind |-> "raise", exc |-> e]

\* all texts over alphabet of length at most n
Texts(alphabet, n) == UNION {[1..k -> alphabet] : k \in 0..n}

startswith(s, p) == Len(s) >= Len(p) /\ SubSeq(s, 1, Len(p)) = p

endswith(s, p) ==
    Len(s) >= Len(p) /\ SubSeq(s, Len(s) - Len(p) + 1, Len(s)) = p

----------------------------------------------------------------------------
(* raise_django_exception *)

\* the error kinds django.db.utils defines
DjangoDbUtilsErrors ==
    {"Error", "InterfaceError", "DatabaseError", "DataError",
     "OperationalError", "IntegrityError", "InternalError",
     "ProgrammingError", "NotSupportedError"}

\* the slip "raise django_exc_type(e.args)": the arguments arrive as one tuple
raise_django_exception_unstarred(e) ==
    LET django_exc_type ==
            IF e.type \in DjangoDbUtilsErrors THEN e.type ELSE "Error"
    IN  Raise(Exc("django.db.utils", django_exc_type, <<PyTuple(e.args)>>))

raise_django_exception(e) ==
    LET django_exc_type ==
            IF e.type \in DjangoDbUtilsErrors THEN e.type ELSE "Error"
    IN  Raise(Exc("django.db.utils", django_exc_type, e.args))

----------------------------------------------------------------------------
(* CursorWrapper *)

\* re.sub('([^%])%s', '\\1?', query), scanning from position i:
\* leftmost, non-overlapping matches of one non-percent character
\* followed by "%s"
RECURSIVE SubMarker(_, _)
SubMarker(q, i) ==
    IF i > Len(q) THEN <<>>
    ELSE IF i + 2 <= Len(q) /\ q[i] # "%" /\ q[i+1] = "%" /\ q[i+2] = "s"
         THEN <<q[i], "?">> \o SubMarker(q, i + 3)
         ELSE <<q[i]>> \o SubMarker(q, i + 1)

\* re.sub('%%', '%', query), scanning from position i
RECURSIVE SubPercent(_, _)
SubPercent(q, i) ==
    IF i > Len(q) THEN <<>>
    ELSE IF i + 1 <= Len(q) /\ q[i] = "%" /\ q[i+1] = "%"
         THEN <<"%">> \o SubPercent(q, i + 2)
         ELSE <<q[i]>> \o SubPercent(q, i + 1)

Rewrite(query) == SubPercent(SubMarker(query, 1), 1)

\* query templates handed to the wrapper
QueryAlphabet == {"%", "s", "a"}

Templates == Texts(QueryAlphabet, MaxQueryLen)

\* bound parameters handed to the wrapper
Params == {None, PyTuple(<<PyInt(1)>>)}

\* positional arguments an exception of the driver may carry
ExcArgs == UNION {[1..k -> {PyInt(1), PyInt(2)}] : k \in 0..MaxArgs}

\* kinds of exception the driver cursor may raise: CUBRIDdb's own, of
\* which "Warning" has no counterpart in django.db.utils, and a builtin
NativeErrors ==
    {Exc("CUBRIDdb", "Error", <<>>), Exc("CUBRIDdb", "Warning", <<>>),
     Exc("CUBRIDdb", "IntegrityError", <<>>),
     Exc("CUBRIDdb", "InterfaceError", <<>>),
     Exc("builtins", "TypeError", <<>>)}

\* what self.cursor.execute / executemany may do
DriverReactions ==
    {Return(PyInt(1))}
        \cup {Raise(Exc(e.module, e.type, a)) : e \in NativeErrors, a \in ExcArgs}

\* try: ... return self.cursor.<call>(query, args)
\* except Exception as e: raise_django_exception(e)
Handled(reaction) ==
    IF reaction.kind = "raise"
    THEN raise_django_exception(reaction.exc)
    ELSE reaction

execute ==
    /\ pc = "idle"
    /\ \E query \in Templates, a \in Params, reaction \in DriverReactions :
        /\ method' = "execute"
        /\ args' = [query |-> query, args |-> a]
        /\ driver' = <<[call |-> "execute", query |-> Rewrite(query),
                        args |-> a, reaction |-> reaction]>>
        /\ outcome' = Handled(reaction)
    /\ pc' = "done"
    /\ UNCHANGED wrapper

executemany ==
    /\ pc = "idle"
    /\ \E query \in Templates, a \in Params \ {None},
          reaction \in DriverReactions :
        /\ method' = "executemany"
        /\ args' = [query |-> query, args |-> a]
        /\ driver' = <<[call |-> "executemany", query |-> Rewrite(query),
                        args |-> a, reaction |-> reaction]>>
        /\ outcome' = Handled(reaction)
    /\ pc' = "done"
    /\ UNCHANGED wrapper

----------------------------------------------------------------------------
(* DatabaseOperations: inbound conversions *)

BinaryDigits == {"0", "1"}

\* value of a text of binary digits, most significant first
RECURSIVE BinaryValue(_)
BinaryValue(t) ==
    IF t = <<>> THEN 0
    ELSE 2 * BinaryValue(SubSeq(t, 1, Len(t) - 1))
            + (IF t[Len(t)] = "1" THEN 1 ELSE 0)

\* int(chunk, 2): an optional "0b" / "0B" prefix, then at least one binary
\* digit and nothing else; ValueError otherwise
int2(chunk) ==
    LET digits ==
            IF startswith(chunk, <<"0", "B">>) \/ startswith(chunk, <<"0", "b">>)
            THEN SubSeq(chunk, 3, Len(chunk))
            ELSE chunk
    IN  IF digits # <<>> /\ \A i \in 1..Len(digits) : digits[i] \in BinaryDigits
        THEN Return(PyInt(BinaryValue(digits)))
        ELSE Raise(Exc("builtins", "ValueError",
                       <<PyStr(<<"invalid literal for int() with base 2: ">>
                                   \o chunk)>>))

\* the slice value[i:i + 7]
Slice8_short(value, i) ==
    SubSeq(value, i + 1, IF i + 7 <= Len(value) THEN i + 7 ELSE Len(value))

\* value[i:i + 8] for a 0-based index i
Slice8(value, i) ==
    SubSeq(value, i + 1, IF i + 8 <= Len(value) THEN i + 8 ELSE Len(value))

\* bytes(gen_bytes()) with the generator at index i: the integers yielded
\* from i on, or the first exception int() raises
RECURSIVE gen_bytes(_, _)
gen_bytes(value, i) ==
    IF i >= Len(value) THEN Return(<<>>)
    ELSE LET b == int2(Slice8(value, i))
             rest == gen_bytes(value, i + 8)
         IN  IF b.kind = "raise" THEN b
             ELSE IF rest.kind = "raise" THEN rest
             ELSE Return(<<b.value.v>> \o rest.value)

convert_binaryfield_value(value) ==
    IF value.type # "str"
    THEN Raise(Exc("builtins", "AttributeError",
                   <<PyStr(<<"object has no attribute 'startswith'">>)>>))
    ELSE IF ~startswith(value.chars, <<"0", "B">>)
    THEN Raise(Exc("builtins", "ValueError",
                   <<PyStr(<<"Unexpected value: ">> \o value.chars)>>))
    ELSE LET packed == gen_bytes(SubSeq(value.chars, 3, Len(value.chars)), 0)
         IN  IF packed.kind = "raise" THEN packed
             ELSE Return(PyBytes(packed.value))

\* the 8 binary digits of a byte, most significant first
Bits8(n) == [i \in 1..8 |-> IF (n \div 2^(8 - i)) % 2 = 1 THEN "1" ELSE "0"]

\* the literal of a byte sequence: "0B", then the 8 digits of each byte
RECURSIVE BitLiteral(_)
BitLiteral(b) ==
    IF b = <<>> THEN <<"0", "B">>
    ELSE BitLiteral(SubSeq(b, 1, Len(b) - 1)) \o Bits8(b[Len(b)])

ByteSamples == {0, 1, 127, 128, 170, 255}

ByteSeqs == UNION {[1..k -> ByteSamples] : k \in 0..MaxBytes}

LiteralPrefixes == {<<>>, <<"0", "B">>, <<"0", "b">>, <<"B">>}

\* texts the driver may hand over for a BIT VARYING column
RawLiterals ==
    {p \o t : p \in LiteralPrefixes, t \in Texts(BinaryDigits, MaxBits)}
        \cup {<<"0", "B">> \o t : t \in Texts({"0", "1", "B", "x"}, MaxJunk)}

ConvertBinary ==
    /\ pc = "idle"
    /\ \/ \E b \in ByteSeqs : args' = [value |-> PyStr(BitLiteral(b))]
       \/ \E t \in RawLiterals : args' = [value |-> PyStr(t)]
       \/ args' = [value |-> None]
    /\ method' = "convert_binaryfield_value"
    /\ outcome' = convert_binaryfield_value(args'.value)
    /\ driver' = <<>>
    /\ pc' = "done"
    /\ UNCHANGED wrapper

Digit(n) == <<"0", "1", "2", "3", "4", "5", "6", "7", "8", "9">>[n + 1]

TwoDigits(n) == <<Digit(n \div 10), Digit(n % 10)>>

\* force_text(value): text as it is, bytes decoded as UTF-8 (the bytes drawn
\* here are ASCII letters or 0xFF, which is no UTF-8), anything else by str()
\* (the other values drawn here are one-digit integers)
Chr(n) == IF n = 97 THEN "a" ELSE "b"

force_text(value) ==
    IF value.type = "str" THEN Return(value)
    ELSE IF value.type = "bytes"
    THEN IF \A i \in 1..Len(value.items) : value.items[i] < 128
         THEN Return(PyStr([i \in 1..Len(value.items) |-> Chr(value.items[i])]))
         ELSE Raise(Exc("django.utils.encoding", "DjangoUnicodeDecodeError",
                        <<value>>))
    ELSE Return(PyStr(<<Digit(value.v)>>))

convert_textfield_value(value) ==
    IF value # None THEN force_text(value) ELSE Return(value)

TextValues ==
    {None, PyStr(<<>>), PyStr(<<"a">>), PyBytes(<<97, 98>>), PyBytes(<<255>>),
     PyInt(7)}

ConvertText ==
    /\ pc = "idle"
    /\ \E value \in TextValues :
        /\ args' = [value |-> value]
        /\ outcome' = convert_textfield_value(value)
    /\ method' = "convert_textfield_value"
    /\ driver' = <<>>
    /\ pc' = "done"
    /\ UNCHANGED wrapper

\* value in (0, 1): equality with 0 or 1, which True and False have too
In01(value) ==
    \/ value.type = "int" /\ value.v \in {0, 1}
    \/ value.type = "bool"

\* bool(value) for a value equal to 0 or 1
bool(value) ==
    IF value.type = "bool" THEN value ELSE PyBool(value.v = 1)

convert_booleanfield_value(value) ==
    IF In01(value) THEN Return(bool(value)) ELSE Return(value)

BooleanValues ==
    {None, PyBool(TRUE), PyBool(FALSE)} \cup {PyInt(n) : n \in -1..2}

ConvertBoolean ==
    /\ pc = "idle"
    /\ \E value \in BooleanValues :
        /\ args' = [value |-> value]
        /\ outcome' = convert_booleanfield_value(value)
    /\ method' = "convert_booleanfield_value"
    /\ driver' = <<>>
    /\ pc' = "done"
    /\ UNCHANGED wrapper

\* a datetime: a day of January 2000, an hour, and tzinfo (None when naive)
DateTime(day, hour, tzinfo) ==
    [type |-> "datetime", day |-> day, hour |-> hour, tzinfo |-> tzinfo]

\* a fixed-offset timezone, the offset in hours east of UTC
TzInfo(h) == [type |-> "tzinfo", utcoffset |-> h]

utc == TzInfo(0)

TimeZones == {TzInfo(h) : h \in {-2, 0, 2}}

Days == {10, 11}

Hours == {0, 1, 12, 23}

DateTimes ==
    {DateTime(d, h, tz) : d \in Days, h \in Hours, tz \in {None} \cup TimeZones}

is_aware(value) == value.tzinfo # None

\* timezone.make_aware(value, tz)
make_aware(value, tz) ==
    IF is_aware(value)
    THEN Raise(Exc("builtins", "ValueError",
                   <<PyStr(<<"Not naive datetime (tzinfo is already set)">>)>>))
    ELSE Return(DateTime(value.day, value.hour, tz))

convert_datetimefield_value(value, connection_timezone) ==
    IF value # None THEN make_aware(value, connection_timezone)
    ELSE Return(value)

ConvertDateTime ==
    /\ pc = "idle"
    /\ \E value \in {None} \cup DateTimes, tz \in TimeZones :
        /\ args' = [value |-> value, timezone |-> tz]
        /\ outcome' = convert_datetimefield_value(value, tz)
    /\ method' = "convert_datetimefield_value"
    /\ driver' = <<>>
    /\ pc' = "done"
    /\ UNCHANGED wrapper

\* t without the characters of set cs
RECURSIVE Without(_, _)
Without(t, cs) ==
    IF t = <<>> THEN <<>>
    ELSE (IF t[1] \in cs THEN <<>> ELSE <<t[1]>>) \o Without(Tail(t), cs)

\* t.strip('{}')
RECURSIVE StripBraces(_)
StripBraces(t) ==
    IF t # <<>> /\ t[1] \in {"{", "}"} THEN StripBraces(Tail(t))
    ELSE IF t # <<>> /\ t[Len(t)] \in {"{", "}"}
    THEN StripBraces(SubSeq(t, 1, Len(t) - 1))
    ELSE t

HexDigits == {"0", "9", "a", "f", "A", "F"}

Lower(c) == IF c = "A" THEN "a" ELSE IF c = "F" THEN "f" ELSE c

\* uuid.UUID(value): braces stripped, hyphens removed, then exactly 32
\* hexadecimal digits (the texts drawn here hold no "urn:" or "uuid:")
UUID(value) ==
    IF value.type # "str"
    THEN Raise(Exc("builtins", "AttributeError",
                   <<PyStr(<<"object has no attribute 'replace'">>)>>))
    ELSE LET hex == Without(StripBraces(value.chars), {"-"})
         IN  IF Len(hex) # 32
                \/ \E i \in 1..Len(hex) : hex[i] \notin HexDigits
             THEN Raise(Exc("builtins", "ValueError",
                        <<PyStr(<<"badly formed hexadecimal UUID string">>)>>))
             ELSE Return([type |-> "UUID",
                          hex |-> [i \in 1..32 |-> Lower(hex[i])]])

convert_uuidfield_value(value) ==
    IF value # None THEN UUID(value) ELSE Return(value)

Rep(c, n) == [i \in 1..n |-> c]

Hyphenated(c) ==
    Rep(c, 8) \o <<"-">> \o Rep(c, 4) \o <<"-">> \o Rep(c, 4) \o <<"-">>
        \o Rep(c, 4) \o <<"-">> \o Rep(c, 12)

UuidTexts ==
    {Rep(c, n) : c \in HexDigits \cup {"g"}, n \in 31..33}
        \cup {Hyphenated(c) : c \in HexDigits \cup {"g"}}
        \cup {<<"{">> \o Hyphenated(c) \o <<"}">> : c \in HexDigits}

ConvertUuid ==
    /\ pc = "idle"
    /\ \E value \in {None, PyInt(1)} \cup {PyStr(t) : t \in UuidTexts} :
        /\ args' = [value |-> value]
        /\ outcome' = convert_uuidfield_value(value)
    /\ method' = "convert_uuidfield_value"
    /\ driver' = <<>>
    /\ pc' = "done"
    /\ UNCHANGED wrapper

----------------------------------------------------------------------------
(* DatabaseOperations: outbound conversions *)

\* value.astimezone(tz) of an aware datetime: the same instant on tz's clock
astimezone(value, tz) ==
    LET hours == value.day * 24 + value.hour - value.tzinfo.utcoffset
                    + tz.utcoffset
    IN  DateTime(hours \div 24, hours % 24, tz)

\* value.replace(tzinfo=tzinfo)
replace_tzinfo(value, tzinfo) == DateTime(value.day, value.hour, tzinfo)

\* unicode(value), the text constructor of Python 2, for a datetime:
\* "2000-01-DD HH:00:00", then the UTC offset
\* "+HH:00" or "-HH:00" when the datetime is aware
unicode(value) ==
    LET h == IF value.tzinfo = None THEN 0 ELSE value.tzinfo.utcoffset
    IN  PyStr(<<"2", "0", "0", "0", "-", "0", "1", "-">> \o TwoDigits(value.day)
            \o <<" ">> \o TwoDigits(value.hour)
            \o <<":", "0", "0", ":", "0", "0">>
            \o (IF value.tzinfo = None THEN <<>>
                ELSE <<IF h < 0 THEN "-" ELSE "+">>
                        \o TwoDigits(IF h < 0 THEN -h ELSE h)
                        \o <<":", "0", "0">>))

\* value_to_db_datetime without .replace(tzinfo=None)
value_to_db_datetime_keeps_tzinfo(value, USE_TZ) ==
    IF value = None THEN Return(None)
    ELSE IF is_aware(value)
    THEN IF USE_TZ
         THEN Return(unicode(astimezone(value, utc)))
         ELSE Raise(Exc("builtins", "ValueError",
                <<PyStr(<<"CUBRID does not support timezone-aware datetime when USE_TZ is False.">>)>>))
    ELSE Return(unicode(value))

value_to_db_datetime(value, USE_TZ) ==
    IF value = None THEN Return(None)
    ELSE IF is_aware(value)
    THEN IF USE_TZ
         THEN Return(unicode(replace_tzinfo(astimezone(value, utc), None)))
         ELSE Raise(Exc("builtins", "ValueError",
                <<PyStr(<<"CUBRID does not support timezone-aware datetime when USE_TZ is False.">>)>>))
    ELSE Return(unicode(value))

ValueToDbDatetime ==
    /\ pc = "idle"
    /\ \E value \in {None} \cup DateTimes, USE_TZ \in BOOLEAN :
        /\ args' = [value |-> value, USE_TZ |-> USE_TZ]
        /\ outcome' = value_to_db_datetime(value, USE_TZ)
    /\ method' = "value_to_db_datetime"
    /\ driver' = <<>>
    /\ pc' = "done"
    /\ UNCHANGED wrapper

----------------------------------------------------------------------------
(* DatabaseOperations: SQL fragments.  A fragment is a sequence of pieces   *)
(* of text.                                                                *)

fields == <<"year", "month", "day", "hour", "minute", "second", "milisecond">>

format == <<"%%Y-", "%%m", "-%%d", " %%H:", "%%i", ":%%s", ".%%ms">>

format_def == <<"0000-", "01", "-01", " 00:", "00", ":00", ".00">>

\* fields.index(lookup_type) + 1, or 0 where index() raises ValueError
FieldIndex(lookup_type) ==
    IF \E k \in 1..Len(fields) : fields[k] = lookup_type
    THEN CHOOSE k \in 1..Len(fields) :
            /\ fields[k] = lookup_type
            /\ \A j \in 1..(k - 1) : fields[j] # lookup_type
    ELSE 0

date_trunc_sql(lookup_type, field_name) ==
    LET i == FieldIndex(lookup_type)
    IN  IF i = 0 THEN <<field_name>>
        ELSE LET format_str ==
                    SubSeq(format, 1, i) \o SubSeq(format_def, i + 1, Len(format_def))
             IN  <<"CAST(DATE_FORMAT(", field_name, ", '">> \o format_str
                    \o <<"') AS DATETIME)">>

\* the units Django asks for, the spelling of the fields list, and two
\* units the list does not know
LookupTypes ==
    {"year", "month", "day", "hour", "minute", "second", "millisecond",
     "milisecond", "week", "quarter"}

FieldNames == {"col", "t.c"}

DateTruncSql ==
    /\ pc = "idle"
    /\ \E lookup_type \in LookupTypes, field_name \in FieldNames :
        /\ args' = [lookup_type |-> lookup_type, field_name |-> field_name]
        /\ outcome' = Return(PyStr(date_trunc_sql(lookup_type, field_name)))
    /\ method' = "date_trunc_sql"
    /\ driver' = <<>>
    /\ pc' = "done"
    /\ UNCHANGED wrapper

\* datetime_trunc_sql: the same fragment, after a RuntimeWarning when
\* settings.USE_TZ is on
DatetimeTruncSql ==
    /\ pc = "idle"
    /\ \E lookup_type \in LookupTypes, field_name \in FieldNames,
          tzname \in {None, PyStr(<<"UTC">>)}, USE_TZ \in BOOLEAN :
        /\ args' = [lookup_type |-> lookup_type, field_name |-> field_name,
                      tzname |-> tzname, USE_TZ |-> USE_TZ]
        /\ outcome' =
              [kind |-> "return",
               value |-> PyStr(date_trunc_sql(lookup_type, field_name)),
               warnings |-> IF USE_TZ THEN <<"RuntimeWarning">> ELSE <<>>]
    /\ method' = "datetime_trunc_sql"
    /\ driver' = <<>>
    /\ pc' = "done"
    /\ UNCHANGED wrapper

\* the quote character, U+0060
Backtick == "BACKTICK"

\* quote_name that wraps every name
quote_name_always(name) == <<Backtick>> \o name \o <<Backtick>>

quote_name(name) ==
    IF startswith(name, <<Backtick>>) /\ endswith(name, <<Backtick>>)
    THEN name
    ELSE <<Backtick>> \o name \o <<Backtick>>

Names == Texts({Backtick, "a", "."}, MaxNameLen)

QuoteName ==
    /\ pc = "idle"
    /\ \E name \in Names :
        /\ args' = [name |-> PyStr(name)]
        /\ outcome' = Return(PyStr(quote_name(name)))
    /\ method' = "quote_name"
    /\ driver' = <<>>
    /\ pc' = "done"
    /\ UNCHANGED wrapper

\* An integer of any size: three limbs of 21 bits, the most significant
\* first (the first limb is not capped)
Limb == 2^21

Wide(hi, mid, lo) == <<hi, mid, lo>>

\* a < b
Less(a, b) ==
    \/ a[1] < b[1]
    \/ a[1] = b[1] /\ a[2] < b[2]
    \/ a[1] = b[1] /\ a[2] = b[2] /\ a[3] < b[3]

\* sys.maxsize = 2^63 - 1
sys_maxsize == Wide(Limb - 1, Limb - 1, Limb - 1)

PyLong(n) == [type |-> "int", limbs |-> n]

Decimal(n) == [type |-> "Decimal", limbs |-> n]

\* the part of last_insert_id after fetchone(), with <= for <
last_insert_id_result_le(result) ==
    IF result.type # "tuple"
    THEN Raise(Exc("builtins", "TypeError",
                   <<PyStr(<<"'NoneType' object is not subscriptable">>)>>))
    ELSE LET first == result.items[1]
         IN  IF first = None
             THEN Raise(Exc("builtins", "TypeError",
                            <<PyStr(<<"unorderable types">>)>>))
             ELSE IF Less(first.limbs, sys_maxsize) \/ first.limbs = sys_maxsize
             THEN Return(PyLong(first.limbs))
             ELSE Return(first)

\* the part of last_insert_id after fetchone(): result is the fetched row
last_insert_id_result(result) ==
    IF result.type # "tuple"
    THEN Raise(Exc("builtins", "TypeError",
                   <<PyStr(<<"'NoneType' object is not subscriptable">>)>>))
    ELSE LET first == result.items[1]
         IN  IF first = None
             THEN Raise(Exc("builtins", "TypeError",
                            <<PyStr(<<"unorderable types">>)>>))
             ELSE IF Less(first.limbs, sys_maxsize)
             THEN Return(PyLong(first.limbs))
             ELSE Return(first)

\* values LAST_INSERT_ID() may report, around and far from sys.maxsize
WideValues ==
    {Wide(0, 0, 0), Wide(0, 0, 1), Wide(0, 1, 0), Wide(1, 0, 0),
     Wide(Limb - 1, Limb - 1, Limb - 2), Wide(Limb - 1, Limb - 1, Limb - 1),
     Wide(Limb, 0, 0), Wide(Limb, 0, 1), Wide(2 * Limb - 1, Limb - 1, Limb - 1)}

\* what cursor.fetchone() may return: no row, or a row of one column
FetchedRows ==
    {None, PyTuple(<<None>>)}
        \cup {PyTuple(<<Decimal(n)>>) : n \in WideValues}
        \cup {PyTuple(<<PyLong(n)>>) : n \in WideValues}

\* what cursor.execute() may do
ExecuteReactions ==
    {Return(PyInt(1)),
     Raise(Exc("django.db.utils", "InterfaceError", <<>>)),
     Raise(Exc("django.db.utils", "DatabaseError", <<PyInt(1)>>))}

last_insert_id ==
    /\ pc = "idle"
    /\ \E table_name \in {"t", "u"}, pk_name \in {"id", "pk"},
          reaction \in ExecuteReactions, row \in FetchedRows :
        /\ args' = [table_name |-> table_name, pk_name |-> pk_name]
        /\ IF reaction.kind = "raise"
           THEN /\ driver' = <<[call |-> "execute",
                                query |-> <<"SELECT LAST_INSERT_ID()">>,
                                reaction |-> reaction]>>
                /\ outcome' = reaction
           ELSE /\ driver' = <<[call |-> "execute",
                                query |-> <<"SELECT LAST_INSERT_ID()">>,
                                reaction |-> reaction],
                               [call |-> "fetchone", reaction |-> Return(row)]>>
                /\ outcome' = last_insert_id_result(row)
    /\ method' = "last_insert_id"
    /\ pc' = "done"
    /\ UNCHANGED wrapper

----------------------------------------------------------------------------
(* DatabaseWrapper.get_new_connection.  The URL is a sequence of pieces of  *)
(* text: each ":" the code adds is a piece, each setting is a piece.       *)

\* the piece ':' + text
Colon(text) == <<":", text>>

\* text.startswith('/') for the host settings drawn here
StartsWithSlash(text) == text \in {"/tmp/cubrid.sock"}

connect_url(settings_dict) ==
    <<"CUBRID">>
        \o (IF StartsWithSlash(settings_dict.HOST) THEN Colon(settings_dict.HOST)
            ELSE IF settings_dict.HOST # "" THEN Colon(settings_dict.HOST)
            ELSE Colon("localhost"))
        \o (IF settings_dict.PORT # "" THEN Colon(settings_dict.PORT) ELSE <<>>)
        \o (IF settings_dict.NAME # "" THEN Colon(settings_dict.NAME) ELSE <<>>)
        \o <<":", ":", ":">>

connect_user(settings_dict) ==
    IF settings_dict.USER # "" THEN settings_dict.USER ELSE "public"

connect_passwd(settings_dict) ==
    IF settings_dict.PASSWORD # "" THEN settings_dict.PASSWORD ELSE ""

SettingsDicts ==
    [HOST : {"", "dbhost", "/tmp/cubrid.sock"}, PORT : {"", "33000"},
     NAME : {"", "demodb"}, USER : {"", "dba"}, PASSWORD : {"", "secret"}]

\* what Database.connect may do
ConnectReactions ==
    {Return([type |-> "connection"]),
     Raise(Exc("CUBRIDdb", "OperationalError", <<PyInt(1)>>))}

get_new_connection ==
    /\ pc = "idle"
    /\ \E settings_dict \in SettingsDicts, reaction \in ConnectReactions :
        /\ args' = [settings_dict |-> settings_dict, conn_params |-> None]
        /\ driver' = <<[call |-> "connect",
                        url |-> connect_url(settings_dict),
                        user |-> connect_user(settings_dict),
                        passwd |-> connect_passwd(settings_dict),
                        charset |-> "utf8",
                        reaction |-> reaction]>>
        /\ outcome' = reaction
    /\ method' = "get_new_connection"
    /\ pc' = "done"
    /\ UNCHANGED wrapper

----------------------------------------------------------------------------
(* DatabaseWrapper: create_cursor and get_server_version, called in any    *)
(* order on one wrapper.                                                   *)

\* the driver connection that the n-th successful connect returns
Connection(n) == [type |-> "connection", id |-> n]

\* the connect calls of the driver log that returned a connection
Opened(log) ==
    {i \in 1..Len(log) : log[i].call = "connect" /\ log[i].reaction.kind = "return"}

\* what Database.connect may do when log is what the driver has seen
ConnectReactionsAfter(log) ==
    {Return(Connection(Cardinality(Opened(log)) + 1)),
     Raise(Exc("CUBRIDdb", "OperationalError", <<PyInt(1)>>))}

\* the entry of the driver log for Database.connect(url, user, passwd,
\* charset='utf8') as get_new_connection calls it
ConnectCall(settings_dict, reaction) ==
    [call |-> "connect",
     url |-> connect_url(settings_dict),
     user |-> connect_user(settings_dict),
     passwd |-> connect_passwd(settings_dict),
     charset |-> "utf8",
     reaction |-> reaction]

_valid_connection(w) == w.connection # None

\* what self.connection.cursor() may do
CursorReactions(connection) ==
    {Return([type |-> "cursor", connection |-> connection]),
     Raise(Exc("CUBRIDdb", "InterfaceError", <<PyInt(2)>>))}

\* CursorWrapper(cursor)
CursorWrapper(cursor) == [type |-> "CursorWrapper", cursor |-> cursor]

\* self.connection.cursor(), wrapped and returned, on connection c after
\* the driver calls of log
ReturnCursor(c, log) ==
    \E reaction \in CursorReactions(c) :
        /\ driver' = Append(log, [call |-> "cursor", connection |-> c,
                                  reaction |-> reaction])
        /\ IF reaction.kind = "raise"
           THEN /\ outcome' = reaction
                /\ cursors' = cursors
           ELSE /\ outcome' = Return(CursorWrapper(reaction.value))
                /\ cursors' = cursors \cup {CursorWrapper(reaction.value)}

create_cursor ==
    /\ Len(driver) < MaxDriverCalls
    /\ method' = "create_cursor"
    /\ args' = [name |-> None]
    /\ pc' = "done"
    /\ IF ~_valid_connection(self)
       THEN \E reaction \in ConnectReactionsAfter(driver) :
               LET log == Append(driver, ConnectCall(self.settings_dict, reaction))
               IN  IF reaction.kind = "raise"
                   THEN /\ driver' = log
                        /\ outcome' = reaction
                        /\ UNCHANGED wrapper
                   ELSE /\ self' = [self EXCEPT !.connection = reaction.value]
                        /\ signals' = Append(signals,
                                [signal |-> "connection_created",
                                 sender |-> "DatabaseWrapper",
                                 connection |-> reaction.value])
                        /\ ReturnCursor(reaction.value, log)
       ELSE /\ UNCHANGED <<self, signals>>
            /\ ReturnCursor(self.connection, driver)

\* what self.connection.server_version() may do: a version, an empty
\* text, or an error
ServerVersionReactions ==
    {Return(PyStr(<<"9.3.0">>)), Return(PyStr(<<>>)),
     Raise(Exc("CUBRIDdb", "InterfaceError", <<PyInt(2)>>))}

\* the lines of get_server_version after the connection is there:
\* m = self.connection.server_version() on connection c of wrapper w
AskServerVersion(w, log) ==
    \E reaction \in ServerVersionReactions :
        /\ driver' = Append(log, [call |-> "server_version",
                                  connection |-> w.connection,
                                  reaction |-> reaction])
        /\ IF reaction.kind = "raise"
           THEN /\ outcome' = reaction
                /\ self' = w
           ELSE IF reaction.value.chars = <<>>
           THEN /\ outcome' = Raise(Exc("builtins", "Exception",
                        <<PyStr(<<"Unable to determine CUBRID version">>)>>))
                /\ self' = w
           ELSE /\ outcome' = Return(reaction.value)
                /\ self' = [w EXCEPT !.server_version = reaction.value]

get_server_version ==
    /\ Len(driver) < MaxDriverCalls
    /\ method' = "get_server_version"
    /\ args' = <<>>
    /\ pc' = "done"
    /\ UNCHANGED <<signals, cursors>>
    /\ IF self.server_version # None
       THEN /\ outcome' = Return(self.server_version)
            /\ UNCHANGED <<self, driver>>
       ELSE IF ~_valid_connection(self)
       THEN \E reaction \in ConnectReactionsAfter(driver) :
               LET log == Append(driver, ConnectCall(self.settings_dict, reaction))
               IN  IF reaction.kind = "raise"
                   THEN /\ driver' = log
                        /\ outcome' = reaction
                        /\ UNCHANGED self
                   ELSE AskServerVersion(
                            [self EXCEPT !.connection = reaction.value], log)
       ELSE AskServerVersion(self, driver)

----------------------------------------------------------------------------
(* Properties of CursorWrapper *)

Count(q, c) == Cardinality({i \in 1..Len(q) : q[i] = c})

\* positions of a host marker "%s" that no percent sign precedes
Markers(q) ==
    {i \in 1..(Len(q) - 1) :
        q[i] = "%" /\ q[i+1] = "s" /\ (i = 1 \/ q[i-1] # "%")}

\* number of percent signs directly before position i
RECURSIVE PercentsBefore(_, _)
PercentsBefore(q, i) ==
    IF i > 1 /\ q[i-1] = "%" THEN 1 + PercentsBefore(q, i - 1) ELSE 0

\* positions of the second percent sign of an escaped "%%"
Escapes(q) ==
    {i \in 1..Len(q) : q[i] = "%" /\ PercentsBefore(q, i) % 2 = 1}

CursorCalled == pc = "done" /\ method \in {"execute", "executemany"}

\* C1: the query handed to the driver has one "?" for each host marker of
\* the template that no percent sign precedes (a marker at the start of the
\* template and adjacent markers included), and each escaped "%%" has
\* become one "%".
C1_MarkersRewritten ==
    CursorCalled =>
        /\ Count(driver[1].query, "?") = Cardinality(Markers(args.query))
        /\ Count(driver[1].query, "%") =
               Count(args.query, "%") - Cardinality(Markers(args.query))
                   - Cardinality(Escapes(args.query))

DriverRaised == CursorCalled /\ driver[1].reaction.kind = "raise"

\* C2: when the driver cursor raises, execute / executemany raise too: the
\* django.db.utils error of the same name as the native error, or
\* django.db.utils.Error when there is none, with the native error's
\* positional arguments in the same order.
C2_ErrorTranslated ==
    DriverRaised =>
        LET e == driver[1].reaction.exc
        IN  /\ outcome.kind = "raise"
            /\ outcome.exc.module = "django.db.utils"
            /\ outcome.exc.type =
                   IF e.type \in DjangoDbUtilsErrors THEN e.type ELSE "Error"
            /\ outcome.exc.args = e.args

\* a native error with no counterpart, carrying two distinct arguments
C2_Witness ==
    /\ DriverRaised
    /\ driver[1].reaction.exc.type = "Warning"
    /\ driver[1].reaction.exc.args = <<PyInt(2), PyInt(1)>>
    /\ outcome.kind = "raise"
    /\ outcome.exc.type = "Error"

----------------------------------------------------------------------------
(* Properties of the inbound conversions *)

Converted(m) == pc = "done" /\ method = m

\* C3: decoding the literal of a byte sequence ("0B", then the 8 binary
\* digits of each byte in order) yields that byte sequence, the empty
\* sequence and sequences of 0xFF included.
C3_BinaryRoundTrip ==
    Converted("convert_binaryfield_value") =>
        \A b \in ByteSeqs :
            args.value = PyStr(BitLiteral(b)) => outcome = Return(PyBytes(b))

C3_Witness ==
    /\ Converted("convert_binaryfield_value")
    /\ args.value = PyStr(BitLiteral(<<255, 128>>))
    /\ outcome = Return(PyBytes(<<255, 128>>))

\* a text that lacks the "0B" marker, or whose digits after the marker are
\* not a multiple of 8 in number
Malformed(chars) ==
    \/ ~startswith(chars, <<"0", "B">>)
    \/ (Len(chars) - 2) % 8 # 0

\* C4: a malformed binary literal (no "0B" marker, or a bit string whose
\* length is not a multiple of 8) makes convert_binaryfield_value raise; it
\* never returns a byte sequence for it.
C4_MalformedRejected ==
    (Converted("convert_binaryfield_value") /\ args.value.type = "str"
        /\ Malformed(args.value.chars))
        => outcome.kind = "raise"

InboundConversions ==
    {"convert_binaryfield_value", "convert_textfield_value",
     "convert_booleanfield_value", "convert_datetimefield_value",
     "convert_uuidfield_value"}

\* C5: each inbound conversion (binary, text, boolean, timestamp,
\* unique-identifier) returns None for None and raises nothing.
C5_NullIsIdentity ==
    (pc = "done" /\ method \in InboundConversions /\ args.value = None)
        => outcome = Return(None)

----------------------------------------------------------------------------
(* Properties of the outbound conversions *)

DigitValue(c) == CHOOSE n \in 0..9 : Digit(n) = c

\* hours since the start of January 2000 that a literal
\* "2000-01-DD HH:00:00" names
LiteralHours(chars) ==
    (DigitValue(chars[9]) * 10 + DigitValue(chars[10])) * 24
        + DigitValue(chars[12]) * 10 + DigitValue(chars[13])

\* the literal ends after the seconds: no UTC offset follows
NoOffsetMarker(chars) ==
    Len(chars) = 19 /\ \A i \in 11..19 : chars[i] \notin {"+", "-"}

----------------------------------------------------------------------------
(* Properties of the SQL fragments *)

TruncUnits ==
    <<"year", "month", "day", "hour", "minute", "second", "millisecond">>

\* the format specifier and the default text of each component, the
\* coarsest first
Specifier(k) ==
    CASE k = 1 -> "%%Y-" [] k = 2 -> "%%m" [] k = 3 -> "-%%d" [] k = 4 -> " %%H:"
      [] k = 5 -> "%%i" [] k = 6 -> ":%%s" [] k = 7 -> ".%%ms"

Default(k) ==
    CASE k = 1 -> "0000-" [] k = 2 -> "01" [] k = 3 -> "-01" [] k = 4 -> " 00:"
      [] k = 5 -> "00" [] k = 6 -> ":00" [] k = 7 -> ".00"

\* C7: for each of the units year, month, day, hour, minute, second and
\* millisecond, date_trunc_sql and datetime_trunc_sql return
\* CAST(DATE_FORMAT(expr, fmt) AS DATETIME) where fmt keeps the specifier of
\* each component down to the unit and has the default text of each finer
\* one; for any other unit they return the expression unmodified.
C7_TruncFormat ==
    (pc = "done" /\ method \in {"date_trunc_sql", "datetime_trunc_sql"}) =>
        /\ outcome.kind = "return"
        /\ IF \E u \in 1..7 : TruncUnits[u] = args.lookup_type
           THEN LET u == CHOOSE u \in 1..7 : TruncUnits[u] = args.lookup_type
                IN  outcome.value.chars =
                        <<"CAST(DATE_FORMAT(", args.field_name, ", '">>
                            \o [k \in 1..7 |->
                                    IF k <= u THEN Specifier(k) ELSE Default(k)]
                            \o <<"') AS DATETIME)">>
           ELSE outcome.value.chars = <<args.field_name>>

\* C9: quote_name(quote_name(n)) = quote_name(n) for every name n, and a
\* name that starts and ends with a backtick is returned unchanged.
C9_QuoteNameIdempotent ==
    (pc = "done" /\ method = "quote_name") =>
        /\ outcome.kind = "return"
        /\ quote_name(outcome.value.chars) = outcome.value.chars
        /\ (startswith(args.name.chars, <<Backtick>>)
                /\ endswith(args.name.chars, <<Backtick>>))
              => outcome.value = args.name

\* a name with a backtick at one end only is wrapped, and its quoted form
\* is then left alone
C9_Witness ==
    /\ pc = "done" /\ method = "quote_name"
    /\ args.name = PyStr(<<Backtick, "a">>)
    /\ outcome = Return(PyStr(<<Backtick, Backtick, "a", Backtick>>))
    /\ quote_name(<<Backtick, Backtick, "a", Backtick>>) = <<Backtick, Backtick, "a", Backtick>>

\* C10: last_insert_id executes 'SELECT LAST_INSERT_ID()' on the cursor and
\* then fetches one row; it returns the first column as a plain int when
\* the value is strictly below sys.maxsize, and the driver's value
\* unmodified when it is equal to or above sys.maxsize.
C10_LastInsertId ==
    (pc = "done" /\ method = "last_insert_id") =>
        /\ driver[1].call = "execute"
        /\ driver[1].query = <<"SELECT LAST_INSERT_ID()">>
        /\ driver[1].reaction.kind = "return" =>
              /\ Len(driver) = 2
              /\ driver[2].call = "fetchone"
              /\ LET row == driver[2].reaction.value
                 IN  (row # None /\ row.items[1] # None) =>
                        LET first == row.items[1]
                        IN  IF Less(first.limbs, sys_maxsize)
                            THEN outcome = Return(PyLong(first.limbs))
                            ELSE outcome = Return(first)

\* the driver reports exactly sys.maxsize as a Decimal: it comes back
\* as that Decimal
C10_Witness ==
    /\ pc = "done" /\ method = "last_insert_id"
    /\ Len(driver) = 2
    /\ driver[2].reaction = Return(PyTuple(<<Decimal(sys_maxsize)>>))
    /\ outcome = Return(Decimal(sys_maxsize))

\* the driver reports sys.maxsize - 1 as a Decimal: it comes back as an int
C10_WitnessBelow ==
    /\ pc = "done" /\ method = "last_insert_id"
    /\ Len(driver) = 2
    /\ driver[2].reaction =
           Return(PyTuple(<<Decimal(Wide(Limb - 1, Limb - 1, Limb - 2))>>))
    /\ outcome = Return(PyLong(Wide(Limb - 1, Limb - 1, Limb - 2)))

----------------------------------------------------------------------------
(* Properties of DatabaseWrapper.get_new_connection *)

\* url without its empty pieces: the text is the same
RECURSIVE NonEmptyPieces(_)
NonEmptyPieces(url) ==
    IF url = <<>> THEN <<>>
    ELSE (IF url[1] = "" THEN <<>> ELSE <<url[1]>>) \o NonEmptyPieces(Tail(url))

\* C8: the URL handed to connect is 'CUBRID:<host>:<port>:<name>:::' for
\* every combination of HOST, PORT and NAME (set or empty), the host being
\* 'localhost' when HOST is empty; user and password are separate
\* arguments, 'public' and '' when USER / PASSWORD are empty.
C8_ConnectUrl ==
    (pc = "done" /\ method = "get_new_connection") =>
        LET d == args.settings_dict
        IN  /\ NonEmptyPieces(driver[1].url) =
                   NonEmptyPieces(
                       <<"CUBRID", ":", IF d.HOST = "" THEN "localhost" ELSE d.HOST,
                         ":", d.PORT, ":", d.NAME, ":", ":", ":">>)
            /\ driver[1].user = (IF d.USER = "" THEN "public" ELSE d.USER)
            /\ driver[1].passwd = d.PASSWORD

----------------------------------------------------------------------------
(* Properties of DatabaseWrapper.create_cursor and get_server_version *)

\* the driver connections that a connection_created signal was sent for
Announced == {signals[i].connection : i \in 1..Len(signals)}

\* C11: in any sequence of create_cursor and get_server_version calls on a
\* wrapper that starts with no connection, the driver connection is opened
\* at most once, connection_created is sent at most once and only for the
\* connection the wrapper holds, and every cursor create_cursor returned
\* belongs to a connection that connection_created was sent for.
C11_ConnectionCreatedSent ==
    /\ Cardinality(Opened(driver)) <= 1
    /\ Len(signals) <= 1
    /\ Announced \subseteq {self.connection}
    /\ \A c \in cursors : c.cursor.connection \in Announced

\* the parts of C11 about opening: a connect call is made only while no
\* connection is held, and at most one of them returns a connection
C11_OpenedOnce ==
    /\ Cardinality(Opened(driver)) <= 1
    /\ \A i \in 1..Len(driver) :
          driver[i].call = "connect" => Opened(SubSeq(driver, 1, i - 1)) = {}
    /\ Len(signals) <= 1
    /\ Announced \subseteq {self.connection}

----------------------------------------------------------------------------

Init ==
    /\ pc = "idle"
    /\ method = "none"
    /\ args = <<>>
    /\ driver = <<>>
    /\ outcome = None
    /\ self = [connection |-> None, server_version |-> None,
               settings_dict |-> [HOST |-> "", PORT |-> "33000",
                                  NAME |-> "demodb", USER |-> "",
                                  PASSWORD |-> ""]]
    /\ signals = <<>>
    /\ cursors = {}

Next ==
    \/ execute
    \/ executemany
    \/ ConvertBinary
    \/ ConvertText
    \/ ConvertBoolean
    \/ ConvertDateTime
    \/ ConvertUuid
    \/ ValueToDbDatetime
    \/ DateTruncSql
    \/ DatetimeTruncSql
    \/ QuoteName
    \/ last_insert_id
    \/ get_new_connection

Spec == Init /\ [][Next]_vars

\* settings of the wrapper that create_cursor and get_server_version run on
WrapperSettings ==
    {d \in SettingsDicts :
        d.PORT = "33000" /\ d.NAME = "demodb" /\ d.PASSWORD = ""}

\* __init__: no connection, no server_version
InitWrapper ==
    /\ pc = "idle"
    /\ method = "none"
    /\ args = <<>>
    /\ driver = <<>>
    /\ outcome = None
    /\ \E d \in WrapperSettings :
          self = [connection |-> None, server_version |-> None,
                  settings_dict |-> d]
    /\ signals = <<>>
    /\ cursors = {}

NextWrapper ==
    \/ create_cursor
    \/ get_server_version

SpecWrapper == InitWrapper /\ [][NextWrapper]_vars

====
